---------------------------- MODULE Spec2Model ----------------------------
(***************************************************************************)
(* Model of the RAG pipeline's locally engineered logic:                   *)
(*   - SmartPDFSplitter (src/smart_pdf_splitter.py): clean_text,           *)
(*     is_sentence_boundary, find_smart_break, split_text_smart;           *)
(*   - RAGChatSystem (src/ai_rag_chat.py): filter_quality_results, chat;   *)
(*   - ingestion (src/pdf_loader.py, src/ingestion_pgvector.py);           *)
(*   - the MCP servers (src/mcp_server.py, src/mcp_server_flexible.py).    *)
(*                                                                         *)
(* A Python str is a sequence of one-character strings.  Python offsets    *)
(* are 0-based; At(text, i) reads the character at Python offset i.        *)
(***************************************************************************)
EXTENDS Integers, Sequences, FiniteSets, TLC

VARIABLES
  \* split_text_smart (one call)
  text, chunk_size, chunk_overlap, min_chunk_size, max_chunk_size, start, chunks,
  pc,
  \* history of the call: the [start, cut) span of every loop iteration, and for
  \* every emitted chunk the text positions [lo, hi) it holds and its iteration
  iter_spans, chunk_spans,
  \* find_smart_break called on its own
  fb_text, fb_target, fb_result,
  \* is_sentence_boundary called on its own
  sb_text, sb_pos, sb_result,
  \* clean_text applied once and twice
  ct_raw, ct_once, ct_twice,
  \* clean_query applied to the same raw text
  cq_once,
  \* RAGChatSystem: one chat() call
  similarity_threshold, search_results, quality_results, chat_pc, response,
  \* whether the vector store raised during this chat() call
  search_error,
  \* chat(): the query as given and as cleaned, the prompt built, what the
  \* language model returned, whether it raised, and the calls made so far
  query, cleaned_query, prompt, llm_reply, generation_error, calls,
  \* one ingestion run: the entry point used, the pages the PDF loader gave, the
  \* documents returned, whether the loader raised, and the vector store's rows
  pdf_entry, pdf_pages, pdf_docs, pdf_pc, load_error, store_docs,
  \* the batches ingested into the store so far, oldest first
  ingested,
  \* MCP server: which server runs, whether the RAG components were imported,
  \* the environment variables that are set and the files that exist,
  mcp_kind, rag_available, env_set, files,
  \* the manager's fields,
  vector_store, is_initialized, last_ingestion_info,
  \* and the last operation: what was called, what it returned, which components
  \* it invoked, whether an exception left it, and the tools last listed
  mcp_op, mcp_result, mcp_invoked, mcp_escaped, tools_listed

vars == <<text, chunk_size, chunk_overlap, min_chunk_size, max_chunk_size, start, chunks,
  pc,
          iter_spans, chunk_spans,
          fb_text, fb_target, fb_result,
          sb_text, sb_pos, sb_result,
          ct_raw, ct_once, ct_twice, cq_once,
          similarity_threshold, search_results, quality_results, chat_pc, response,
          search_error, query, cleaned_query, prompt, llm_reply, generation_error,
          calls,
          pdf_entry, pdf_pages, pdf_docs, pdf_pc, load_error, store_docs, ingested,
          mcp_kind, rag_available, env_set, files,
          vector_store, is_initialized, last_ingestion_info,
          mcp_op, mcp_result, mcp_invoked, mcp_escaped, tools_listed>>

split_vars == <<text, chunk_size, chunk_overlap, min_chunk_size, max_chunk_size, start, chunks,
  pc,
                iter_spans, chunk_spans>>
fb_vars == <<fb_text, fb_target, fb_result>>
sb_vars == <<sb_text, sb_pos, sb_result>>
ct_vars == <<ct_raw, ct_once, ct_twice, cq_once>>
chat_vars == <<similarity_threshold, search_results, quality_results, chat_pc, response,
               search_error, query, cleaned_query, prompt, llm_reply,
               generation_error, calls>>

pdf_vars == <<pdf_entry, pdf_pages, pdf_docs, pdf_pc, load_error, store_docs,
              ingested>>

mcp_world == <<mcp_kind, rag_available, env_set, files>>
manager_vars == <<vector_store, is_initialized, last_ingestion_info>>
mcp_vars == <<mcp_world, manager_vars,
              mcp_op, mcp_result, mcp_invoked, mcp_escaped, tools_listed>>

not_split == <<fb_vars, sb_vars, ct_vars, chat_vars, pdf_vars, mcp_vars>>
not_break == <<split_vars, sb_vars, ct_vars, chat_vars, pdf_vars, mcp_vars>>
not_boundary == <<split_vars, fb_vars, ct_vars, chat_vars, pdf_vars, mcp_vars>>
not_clean == <<split_vars, fb_vars, sb_vars, chat_vars, pdf_vars, mcp_vars>>
not_chat == <<split_vars, fb_vars, sb_vars, ct_vars, pdf_vars, mcp_vars>>
not_pdf == <<split_vars, fb_vars, sb_vars, ct_vars, chat_vars, mcp_vars>>
not_mcp == <<split_vars, fb_vars, sb_vars, ct_vars, chat_vars, pdf_vars>>

-----------------------------------------------------------------------------
(* Characters and Python string primitives                                 *)

NL == "\n"

\* str.isspace() / regex \s over the characters the model uses
IsSpace(c) == c \in {" ", NL, "\t"}

\* regex \d
IsDigit(c) == c \in {"0", "1", "2", "3", "4", "5", "6", "7", "8", "9"}

\* str.isupper()
IsUpper(c) == c \in {"A", "B", "C", "D", "E", "F", "G", "H", "I", "J", "K", "L", "M",
                     "N", "O", "P", "Q", "R", "S", "T", "U", "V", "W", "X", "Y", "Z"}

\* str.isalpha()
IsAlpha(c) == \/ IsUpper(c)
              \/ c \in {"a", "b", "c", "d", "e", "f", "g", "h", "i", "j", "k", "l", "m",
                        "n", "o", "p", "q", "r", "s", "t", "u", "v", "w", "x", "y", "z",
                        "a_acute"}

\* the class [.!?]
IsSentencePunct(c) == c \in {".", "!", "?"}

\* the class ["']
IsQuote(c) == c \in {"\"", "'"}

Min(a, b) == IF a <= b THEN a ELSE b
Max(a, b) == IF a >= b THEN a ELSE b
Abs(x) == IF x < 0 THEN -x ELSE x

\* text[i] for a Python offset 0 <= i < len(text)
At(s, i) == s[i + 1]

\* s[a:b] for offsets a, b >= 0 (the only slices the code takes): clipped to the
\* string, empty when b <= a
Slice(s, a, b) == SubSeq(s, Min(a, Len(s)) + 1, Min(b, Len(s)))

\* needle in hay
Contains(hay, needle) ==
  \E s \in 0..(Len(hay) - Len(needle)) :
     \A k \in 1..Len(needle) : hay[s + k] = needle[k]

\* number of leading / trailing whitespace characters of s
RECURSIVE LeadingSpaces(_)
LeadingSpaces(s) ==
  IF s # <<>> /\ IsSpace(Head(s)) THEN 1 + LeadingSpaces(Tail(s)) ELSE 0

RECURSIVE TrailingSpaces(_)
TrailingSpaces(s) ==
  IF s # <<>> /\ IsSpace(s[Len(s)]) THEN 1 + TrailingSpaces(SubSeq(s, 1, Len(s) - 1)) ELSE 0

\* str.strip()
Strip(s) ==
  IF LeadingSpaces(s) = Len(s) THEN <<>>
  ELSE SubSeq(s, LeadingSpaces(s) + 1, Len(s) - TrailingSpaces(s))

-----------------------------------------------------------------------------
(* SmartPDFSplitter.__init__: patterns and abbreviations                   *)

\* a search for the punctuation alone, whatever follows it
sentence_endings_NoSpace(w) == \E j \in 1..Len(w) : IsSentencePunct(w[j])

\* re.search(r'[.!?]+["\']*\s+', w): some substring w[j..m] is one or more
\* sentence punctuation marks, then any closing quotes, then whitespace
\* (one whitespace character suffices for the search to succeed)
sentence_endings(w) ==
  \E j \in 1..Len(w) :
     /\ IsSentencePunct(w[j])
     /\ \E m \in (j + 1)..Len(w) :
           /\ IsSpace(w[m])
           /\ \E k \in (j + 1)..m :
                 /\ \A x \in (j + 1)..(k - 1) : IsSentencePunct(w[x])
                 /\ \A x \in k..(m - 1) : IsQuote(w[x])

abbreviations ==
  { <<"D", "r", ".">>, <<"S", "r", ".">>, <<"S", "r", "a", ".">>,
    <<"P", "r", "o", "f", ".">>, <<"e", "t", "c", ".">>, <<"v", "s", ".">>,
    <<"i", ".", "e", ".">>, <<"e", ".", "g", ".">>,
    <<"p", "a_acute", "g", ".">>, <<"p", ".">>, <<"c", "a", "p", ".">>,
    <<"v", "o", "l", ".">>, <<"e", "d", ".">>, <<"n", "ord_masc">>,
    <<"n", "degree">>, <<"a", "r", "t", ".">>,
    <<"i", "n", "c", ".">>, <<"c", "o", "r", "p", ".">>, <<"c", "o", ".">>,
    <<"l", "t", "d", ".">>, <<"l", "l", "c", ".">>, <<"i", "n", "c">>,
    <<"c", "o", "r", "p">> }


-----------------------------------------------------------------------------
(* SmartPDFSplitter.is_sentence_boundary                                   *)

\* the three return-True paths after the abbreviation check are kept apart as
\* in the code; all of them return True
is_sentence_boundary(t, pos) ==
  IF pos >= Len(t) - 1 THEN TRUE
  ELSE IF ~sentence_endings(Slice(t, pos, pos + 10)) THEN FALSE
  ELSE IF \E abbr \in abbreviations : Contains(Slice(t, Max(0, pos - 30), pos + 1), abbr)
       THEN FALSE
  ELSE IF pos + 1 < Len(t) /\ IsUpper(At(t, pos + 1)) /\ IsAlpha(At(t, pos + 1)) THEN TRUE
  ELSE IF pos + 2 < Len(t) /\ IsSpace(At(t, pos + 1)) /\ IsUpper(At(t, pos + 2)) THEN TRUE
  ELSE TRUE

-----------------------------------------------------------------------------
(* SmartPDFSplitter.find_smart_break                                       *)

\* half-width of the search window, and the two distance tiers
SearchWindow == 150
NearDistance == 50
MidDistance == 100

\* float('inf'): no score has a negative first component
Infinity == <<-1, 0>>

\* The score is a Python float: distance, times 0.5 or 0.8, times 0.7.  Its
\* exact value is a multiple of 1/100, kept here in hundredths.
ExactScore(distance, punct) ==
  distance * (IF distance <= NearDistance THEN 50
              ELSE IF distance <= MidDistance THEN 80 ELSE 100)
           * (IF punct THEN 7 ELSE 10)

\* IEEE-754 double rounding of the products above, for every distance the
\* window allows (0..150): the float is the double nearest the exact value,
\* or that double's neighbour one unit in the last place below (RoundedBelow)
\* or above (RoundedAbove).  Two scores with the same exact value therefore
\* compare by this offset; scores with different exact values compare as the
\* exact values do.
RoundedBelow ==
  { <<d, TRUE>> : d \in {3, 6, 7, 11, 12, 14, 17, 19, 22, 23, 24, 28, 29, 33, 34, 38,
                         39, 43, 44, 45, 46, 48, 52, 55, 57, 60, 64, 67, 70, 81, 85,
                         89, 91, 95, 101, 102, 106, 107, 111, 112, 116, 117, 121,
                         122, 126, 127, 131, 132, 136, 137, 141, 142, 146, 147} }

RoundedAbove ==
  { <<d, TRUE>> : d \in {51, 53, 58, 61, 83, 87, 96} } \cup
  { <<d, FALSE>> : d \in {51, 53, 56, 58, 61, 63, 66, 68, 71, 73, 76, 78, 82, 87,
                          92, 96, 97} }

UlpOffset(distance, punct) ==
  IF <<distance, punct>> \in RoundedBelow THEN -1
  ELSE IF <<distance, punct>> \in RoundedAbove THEN 1 ELSE 0

\* score as computed by lines 132-143: <<hundredths, offset in ulps>>
Score(t, i, target_pos) ==
  LET distance == Abs(i - target_pos)
      punct == IsSentencePunct(At(t, i))
  IN  <<ExactScore(distance, punct), UlpOffset(distance, punct)>>

\* score <= best_score
ScoreLess_OrEqual(score, best_score) ==
  \/ best_score = Infinity
  \/ score[1] < best_score[1]
  \/ score[1] = best_score[1] /\ score[2] <= best_score[2]

\* score < best_score
ScoreLess(score, best_score) ==
  \/ best_score = Infinity
  \/ score[1] < best_score[1]
  \/ score[1] = best_score[1] /\ score[2] < best_score[2]

\* SentenceStep cutting after the boundary character and the space behind it
SentenceStep_CutAfter(t, target_pos, i, best) ==
  IF is_sentence_boundary(t, i) /\ ScoreLess(Score(t, i, target_pos), best[2])
  THEN <<i + 2, Score(t, i, target_pos)>>
  ELSE best

\* one iteration of the first loop (lines 130-147); best = <<best_break, best_score>>
SentenceStep(t, target_pos, i, best) ==
  IF is_sentence_boundary(t, i) /\ ScoreLess(Score(t, i, target_pos), best[2])
  THEN <<i, Score(t, i, target_pos)>>
  ELSE best

\* iterations i = lo, ..., hi - 1 of the first loop, in that order, starting from
\* best.  The range is processed in two halves: the result of the left half is
\* bound as a value (left) and the right half starts from it, which keeps the
\* evaluation shallow.
RECURSIVE SentencePass(_, _, _, _, _)
SentencePass(t, target_pos, lo, hi, best) ==
  IF lo >= hi THEN best
  ELSE IF hi = lo + 1 THEN SentenceStep(t, target_pos, lo, best)
  ELSE LET mid == (lo + hi) \div 2
       IN  CHOOSE result \in
             { SentencePass(t, target_pos, mid, hi, left) :
                 left \in { SentencePass(t, target_pos, lo, mid, best) } } : TRUE

\* the first offset of a for ... break loop over range(search_start, search_end)
\* is the least offset that satisfies the loop's condition
FirstOf(S, default) == IF S = {} THEN default ELSE CHOOSE i \in S : \A j \in S : i <= j

\* second loop (lines 150-156): paragraph breaks
ParagraphPass(t, target_pos, search_start, search_end, best_break) ==
  IF best_break # target_pos THEN best_break
  ELSE FirstOf({ i \in search_start..(search_end - 1) :
                    /\ Slice(t, i, i + 2) = <<NL, NL>>
                    /\ Abs(i - target_pos) <= MidDistance }, best_break)

\* third loop (lines 159-165): commas and other punctuation
PunctuationPass(t, target_pos, search_start, search_end, best_break) ==
  IF best_break # target_pos THEN best_break
  ELSE FirstOf({ i \in search_start..(search_end - 1) :
                    /\ At(t, i) \in {",", ";", ":"}
                    /\ Abs(i - target_pos) <= MidDistance }, best_break)

\* find_smart_break scanning the whole text instead of the window
find_smart_break_NoWindow(t, target_pos) ==
  LET search_start == 0
      search_end == Len(t)
      b1 == SentencePass(t, target_pos, search_start, search_end,
                         <<target_pos, Infinity>>)[1]
      b2 == ParagraphPass(t, target_pos, search_start, search_end, b1)
  IN  PunctuationPass(t, target_pos, search_start, search_end, b2)

find_smart_break(t, target_pos) ==
  LET search_start == Max(0, target_pos - SearchWindow)
      search_end == Min(Len(t), target_pos + SearchWindow)
      b1 == SentencePass(t, target_pos, search_start, search_end,
                         <<target_pos, Infinity>>)[1]
      b2 == ParagraphPass(t, target_pos, search_start, search_end, b1)
  IN  PunctuationPass(t, target_pos, search_start, search_end, b2)

-----------------------------------------------------------------------------
(* SmartPDFSplitter.clean_text                                             *)
(* Each re.sub scans the string left to right from offset p; where the     *)
(* pattern matches, the replacement is emitted and the scan resumes after  *)
(* the match, otherwise the character at p is copied.                      *)

\* end of the maximal run of whitespace that starts at offset p
RECURSIVE SpaceRunEnd(_, _)
SpaceRunEnd(s, p) == IF p < Len(s) /\ IsSpace(At(s, p)) THEN SpaceRunEnd(s, p + 1) ELSE p

\* end of the maximal run of digits that starts at offset p
RECURSIVE DigitRunEnd(_, _)
DigitRunEnd(s, p) == IF p < Len(s) /\ IsDigit(At(s, p)) THEN DigitRunEnd(s, p + 1) ELSE p

\* end of the maximal run of newlines that starts at offset p
RECURSIVE NewlineRunEnd(_, _)
NewlineRunEnd(s, p) == IF p < Len(s) /\ At(s, p) = NL THEN NewlineRunEnd(s, p + 1) ELSE p

\* the whitespace rule leaving newlines alone
RECURSIVE CollapseWhitespace_KeepNewlines(_, _)
CollapseWhitespace_KeepNewlines(s, p) ==
  IF p >= Len(s) THEN <<>>
  ELSE IF At(s, p) = " "
  THEN <<" ">> \o CollapseWhitespace_KeepNewlines(s, p + 1)
  ELSE <<At(s, p)>> \o CollapseWhitespace_KeepNewlines(s, p + 1)

\* re.sub(r'\s+', ' ', text), from offset p
RECURSIVE CollapseWhitespace(_, _)
CollapseWhitespace(s, p) ==
  IF p >= Len(s) THEN <<>>
  ELSE IF IsSpace(At(s, p)) THEN <<" ">> \o CollapseWhitespace(s, SpaceRunEnd(s, p))
  ELSE <<At(s, p)>> \o CollapseWhitespace(s, p + 1)

\* re.sub(r'\n+', '\n', text), from offset p
RECURSIVE NormalizeLineBreaks(_, _)
NormalizeLineBreaks(s, p) ==
  IF p >= Len(s) THEN <<>>
  ELSE IF At(s, p) = NL THEN <<NL>> \o NormalizeLineBreaks(s, NewlineRunEnd(s, p))
  ELSE <<At(s, p)>> \o NormalizeLineBreaks(s, p + 1)

\* ^ and $ under re.MULTILINE
AtLineStart(s, p) == p = 0 \/ At(s, p - 1) = NL
AtLineEnd(s, p) == p = Len(s) \/ At(s, p) = NL

\* where a match of ^\d+\s*$ that starts at offset p ends, or -1 when there is
\* none: the digits are the maximal run (after fewer digits a digit follows,
\* which neither \s* nor $ accepts); \s* is greedy and gives whitespace back
\* until $ holds
PageNumberMatchEnd(s, p) ==
  LET q == DigitRunEnd(s, p)
      r == SpaceRunEnd(s, q)
      ends == { e \in q..r : AtLineEnd(s, e) }
  IN  IF AtLineStart(s, p) /\ q > p /\ ends # {}
      THEN CHOOSE e \in ends : \A f \in ends : f <= e
      ELSE -1

\* re.sub(r'^\d+\s*$', '', text, flags=re.MULTILINE), from offset p
RECURSIVE RemovePageNumbers(_, _)
RemovePageNumbers(s, p) ==
  IF p >= Len(s) THEN <<>>
  ELSE IF PageNumberMatchEnd(s, p) # -1 THEN RemovePageNumbers(s, PageNumberMatchEnd(s, p))
  ELSE <<At(s, p)>> \o RemovePageNumbers(s, p + 1)

\* re.sub(r'\s+([.!?])', r'\1', text), from offset p
RECURSIVE RemoveSpaceBeforePunct(_, _)
RemoveSpaceBeforePunct(s, p) ==
  IF p >= Len(s) THEN <<>>
  ELSE LET r == SpaceRunEnd(s, p)
       IN  IF r > p /\ r < Len(s) /\ IsSentencePunct(At(s, r))
           THEN <<At(s, r)>> \o RemoveSpaceBeforePunct(s, r + 1)
           ELSE <<At(s, p)>> \o RemoveSpaceBeforePunct(s, p + 1)

\* re.sub(r'([.!?])\s*', r'\1 ', text), from offset p
RECURSIVE OneSpaceAfterPunct(_, _)
OneSpaceAfterPunct(s, p) ==
  IF p >= Len(s) THEN <<>>
  ELSE IF IsSentencePunct(At(s, p))
       THEN <<At(s, p), " ">> \o OneSpaceAfterPunct(s, SpaceRunEnd(s, p + 1))
  ELSE <<At(s, p)>> \o OneSpaceAfterPunct(s, p + 1)

clean_text(raw) ==
  LET t1 == CollapseWhitespace(raw, 0)
      t2 == NormalizeLineBreaks(t1, 0)
      t3 == RemovePageNumbers(t2, 0)
      t4 == RemoveSpaceBeforePunct(t3, 0)
      t5 == OneSpaceAfterPunct(t4, 0)
  IN  Strip(t5)

\* clean_query returning before the final strip
clean_query_NoStrip(q) ==
  OneSpaceAfterPunct(RemoveSpaceBeforePunct(CollapseWhitespace(q, 0), 0), 0)

\* RAGChatSystem.clean_query (ai_rag_chat.py lines 167-174): clean_text's rules
\* without the line-break and page-number rules
clean_query(q) ==
  LET q1 == CollapseWhitespace(q, 0)
      q2 == RemoveSpaceBeforePunct(q1, 0)
      q3 == OneSpaceAfterPunct(q2, 0)
  IN  Strip(q3)

-----------------------------------------------------------------------------
(* SmartPDFSplitter.split_text_smart, one loop iteration per step          *)

\* Emit without the minimum-size test
Emit_NoMinimum(cs, chunk, min_size) ==
  IF chunk # <<>> THEN Append(cs, chunk) ELSE cs

\* lines 189 and 199: the chunk is kept if it is non-empty and long enough
Emit(cs, chunk, min_size) ==
  IF chunk # <<>> /\ Len(chunk) >= min_size THEN Append(cs, chunk) ELSE cs

\* NextStart without the max(start + 1, ...) guard
NextStart_NoGuard(s, break_pos, overlap) == break_pos - overlap

\* NextStart stepping back one character too many
NextStart_OffByOne(s, break_pos, overlap) == Max(s + 1, break_pos - overlap - 1)

\* line 203
NextStart(s, break_pos, overlap) == Max(s + 1, break_pos - overlap)

\* the positions of text[a:b].strip() within the text, and the iteration it
\* was cut in
ChunkSpan(t, a, b, iter) ==
  [lo |-> Min(a, Len(t)) + LeadingSpaces(Slice(t, a, b)),
   hi |-> Min(a, Len(t)) + LeadingSpaces(Slice(t, a, b)) + Len(Strip(Slice(t, a, b))),
   iter |-> iter]

\* the while condition fails (lines 182, 209): only an empty text gets here
\* with the loop still to run, every other exit is a break
SplitExit ==
  /\ pc = "loop"
  /\ start >= Len(text)
  /\ pc' = "done"
  /\ UNCHANGED <<text, chunk_size, chunk_overlap, min_chunk_size, max_chunk_size,
                 start, chunks, iter_spans, chunk_spans>>

\* lines 184-191: the last chunk
SplitLast ==
  /\ pc = "loop"
  /\ start < Len(text)
  /\ start + chunk_size >= Len(text)
  /\ LET chunk == Strip(Slice(text, start, Len(text)))
         kept == Emit(chunks, chunk, min_chunk_size)
     IN  /\ chunks' = kept
         /\ chunk_spans' = IF kept # chunks
                           THEN Append(chunk_spans,
                                       ChunkSpan(text, start, Len(text), Len(iter_spans) + 1))
                           ELSE chunk_spans
  /\ iter_spans' = Append(iter_spans, <<start, Len(text)>>)
  /\ pc' = "done"
  /\ UNCHANGED <<text, chunk_size, chunk_overlap, min_chunk_size, max_chunk_size, start>>

\* lines 184-207: a chunk cut at a smart break, and the cursor update
SplitStep ==
  /\ pc = "loop"
  /\ start < Len(text)
  /\ start + chunk_size < Len(text)
  /\ LET break_pos == find_smart_break(text, start + chunk_size)
         chunk == Strip(Slice(text, start, break_pos))
         kept == Emit(chunks, chunk, min_chunk_size)
         next == NextStart(start, break_pos, chunk_overlap)
     IN  /\ chunks' = kept
         /\ chunk_spans' = IF kept # chunks
                           THEN Append(chunk_spans,
                                       ChunkSpan(text, start, break_pos, Len(iter_spans) + 1))
                           ELSE chunk_spans
         /\ iter_spans' = Append(iter_spans, <<start, break_pos>>)
         /\ start' = next
         /\ pc' = IF next >= Len(text) THEN "done" ELSE "loop"
  /\ UNCHANGED <<text, chunk_size, chunk_overlap, min_chunk_size, max_chunk_size>>

\* Inputs.  Short texts: every string over ShortAlphabet up to MaxShortLen, with
\* small chunk sizes.  Long texts: runs of letters around two marks, longer
\* than the search window, with chunk sizes above the window.
MaxShortLen == 5
MaxChunk == 3
MaxMin == 2
ShortAlphabet == {"a", ".", " "}
ShortTexts == UNION { [1..n -> ShortAlphabet] : n \in 0..MaxShortLen }

PadLen == 120
LongChunk == 160
LongOverlap == 20
LongMin == 100
Fill(n) == [i \in 1..n |-> "a"]
Marks == { <<>>, <<".", " ">>, <<",">>, <<NL, NL>>, <<" ">>, <<"p", ".", " ">> }
LongTexts == { Fill(PadLen) \o m1 \o Fill(PadLen) \o m2 \o Fill(PadLen) :
                  m1 \in Marks, m2 \in Marks }

\* SmartPDFSplitter.__init__ line 18: max_chunk_size: int = 2000
DefaultMaxChunk == 2000

\* RAGChatSystem.__init__ line 46: 0.45, in hundredths
DefaultThreshold == 45

\* A score or threshold is <<h, k>>: the double nearest to h/100, moved k units
\* in the last place. k # 0 is used only next to the default threshold.
Float(h) == <<h, 0>>

IdleBreak == fb_text = <<>> /\ fb_target = 0 /\ fb_result = <<>>
IdleBoundary == sb_text = <<>> /\ sb_pos = 0 /\ sb_result = <<>>
IdleClean == ct_raw = <<>> /\ ct_once = <<>> /\ ct_twice = <<>> /\ cq_once = <<>>
IdleChat ==
  /\ similarity_threshold = Float(DefaultThreshold)
  /\ search_results = <<>>
  /\ quality_results = <<>>
  /\ chat_pc = "idle"
  /\ response = <<>>
  /\ search_error = FALSE
  /\ query = <<>>
  /\ cleaned_query = <<>>
  /\ prompt = <<>>
  /\ llm_reply = <<>>
  /\ generation_error = FALSE
  /\ calls = <<>>
IdleSplit ==
  /\ text = <<>> /\ chunk_size = 1 /\ chunk_overlap = 0 /\ min_chunk_size = 0
  /\ max_chunk_size = DefaultMaxChunk
  /\ start = 0 /\ chunks = <<>> /\ pc = "idle"
  /\ iter_spans = <<>> /\ chunk_spans = <<>>
\* no ingestion run started, the store empty
IdlePdf ==
  /\ pdf_entry = "none"
  /\ pdf_pages = <<>>
  /\ pdf_docs = <<>>
  /\ pdf_pc = "idle"
  /\ load_error = FALSE
  /\ store_docs = <<>>
  /\ ingested = <<>>

\* RAGManager.__init__ (mcp_server.py lines 52-54), nothing called yet
NewManager ==
  /\ vector_store = "None"
  /\ is_initialized = FALSE
  /\ last_ingestion_info = <<>>
  /\ mcp_op = [op |-> "none", via |-> "none", pdf_path |-> ""]
  /\ mcp_result = <<>>
  /\ mcp_invoked = <<>>
  /\ mcp_escaped = FALSE
  /\ tools_listed = {}

\* the plain server with everything configured, nothing called
IdleMcp ==
  /\ mcp_kind = "plain"
  /\ rag_available = TRUE
  /\ env_set = {"OPENAI_API_KEY", "PGVECTOR_URL", "PGVECTOR_COLLECTION"}
  /\ files = {}
  /\ NewManager

\* the passage breaker, the boundary test, the cleaners, the chat and the
\* ingestion as constructed, with no call made
IdleNotMcp == IdleBreak /\ IdleBoundary /\ IdleClean /\ IdleChat /\ IdlePdf

\* everything but the splitter as constructed, with no call made
IdleNotSplit == IdleNotMcp /\ IdleMcp

\* a splitter of 1000-character chunks with overlap 150 and minimum 200, and a
\* text of 2000 letters without punctuation
LettersConfig == [chunk_size |-> 1000, chunk_overlap |-> 150, min_chunk_size |-> 200]
LettersText == [i \in 1..2000 |-> "A"]

\* SmartPDFSplitter.__init__ (lines 28-31) with chunk_size > chunk_overlap >= 0;
\* split_text_smart not yet called
SplitInit ==
  /\ \/ /\ chunk_size \in 1..MaxChunk
        /\ chunk_overlap \in 0..(chunk_size - 1)
        /\ min_chunk_size \in 0..MaxMin
        /\ max_chunk_size \in {2, DefaultMaxChunk}
     \/ /\ chunk_size = LongChunk
        /\ chunk_overlap \in {0, LongOverlap}
        /\ min_chunk_size \in {0, LongMin}
        /\ max_chunk_size = DefaultMaxChunk
     \/ /\ chunk_size = LettersConfig.chunk_size
        /\ chunk_overlap = LettersConfig.chunk_overlap
        /\ min_chunk_size = LettersConfig.min_chunk_size
        /\ max_chunk_size = DefaultMaxChunk
  /\ text = <<>>
  /\ start = 0
  /\ chunks = <<>>
  /\ pc = "idle"
  /\ iter_spans = <<>>
  /\ chunk_spans = <<>>
  /\ IdleNotSplit

\* split_text_smart(text) is called (lines 179-180): short texts for the small
\* chunk sizes, long texts for the chunk size above the search window, the
\* letters for the 1000-character splitter
SplitCall ==
  /\ pc = "idle"
  /\ text' \in (IF chunk_size = LettersConfig.chunk_size THEN {LettersText}
               ELSE IF chunk_size = LongChunk THEN LongTexts
               ELSE ShortTexts)
  /\ start' = 0
  /\ chunks' = <<>>
  /\ pc' = "loop"
  /\ UNCHANGED <<chunk_size, chunk_overlap, min_chunk_size, max_chunk_size,
               iter_spans, chunk_spans>>

SplitNext ==
  \/ SplitCall /\ UNCHANGED not_split
  \/ SplitExit /\ UNCHANGED not_split
  \/ SplitLast /\ UNCHANGED not_split
  \/ SplitStep /\ UNCHANGED not_split

Spec == SplitInit /\ [][SplitNext]_vars

-----------------------------------------------------------------------------
(* find_smart_break called on its own, with any target                    *)

MaxBreakLen == 3
BreakMargin == 2
BreakAlphabet == {"a", ".", " ", ","}
\* a text with an abbreviation before the target and a full stop after it: the
\* offset of the "p" (30) and the second full stop (166) are sentence
\* boundaries 56 before and 80 after the offset 86
TieText == Fill(30) \o <<"p", ".", " ">> \o Fill(133) \o <<".", " ">> \o Fill(5)
BreakTexts ==
  UNION { [1..n -> BreakAlphabet] : n \in 0..MaxBreakLen } \cup LongTexts \cup {TieText}

\* targets below, inside and beyond the text, and one a whole window beyond it
TargetsFor(t) ==
  ((-BreakMargin)..BreakMargin) \cup ((Len(t) - BreakMargin)..(Len(t) + BreakMargin))
    \cup {Len(t) \div 2, Len(t) + SearchWindow}

BreakInit == IdleSplit /\ IdleNotSplit

\* find_smart_break(text, target_pos) is called and returns
BreakCall ==
  /\ fb_result = <<>>
  /\ \E t \in BreakTexts : \E target \in TargetsFor(t) :
        /\ fb_text' = t
        /\ fb_target' = target
        /\ fb_result' = <<find_smart_break(t, target)>>
  /\ UNCHANGED not_break

BreakNext == BreakCall

BreakSpec == BreakInit /\ [][BreakNext]_vars

\* C3 as claimed: for every text and every integer target, find_smart_break
\* returns an offset r with 0 <= r <= len(text).
C3_BreakInRange ==
  fb_result # <<>> => 0 <= fb_result[1] /\ fb_result[1] <= Len(fb_text)

\* C3 as amended: for every text and every target with 0 <= target <= len(text),
\* find_smart_break returns an offset r with 0 <= r <= len(text).
C3_BreakInRangeForTargetInText ==
  fb_result # <<>> /\ 0 <= fb_target /\ fb_target <= Len(fb_text)
    => 0 <= fb_result[1] /\ fb_result[1] <= Len(fb_text)

\* a call on a text longer than the window, with a target inside the text, that
\* moved the cut away from the target
C3_Witness ==
  /\ fb_result # <<>>
  /\ Len(fb_text) > SearchWindow
  /\ 0 <= fb_target /\ fb_target <= Len(fb_text)
  /\ fb_result[1] # fb_target

\* the offsets find_smart_break scans for a target
WindowOffsets(t, target) ==
  Max(0, target - SearchWindow)..(Min(Len(t), target + SearchWindow) - 1)

BoundariesInWindow(t, target) ==
  { i \in WindowOffsets(t, target) : is_sentence_boundary(t, i) }

\* offsets of the window where a paragraph break, or a soft punctuation mark,
\* lies within MidDistance of the target
ParagraphOffsets(t, target) ==
  { i \in WindowOffsets(t, target) :
      Slice(t, i, i + 2) = <<NL, NL>> /\ Abs(i - target) <= MidDistance }

SoftOffsets(t, target) ==
  { i \in WindowOffsets(t, target) :
      At(t, i) \in {",", ";", ":"} /\ Abs(i - target) <= MidDistance }

NearestOf(S, r, target) ==
  r \in S /\ \A j \in S : Abs(r - target) <= Abs(j - target)

\* a call with the target inside the text has returned
BreakReturned == fb_result # <<>> /\ 0 <= fb_target /\ fb_target <= Len(fb_text)

\* C21: whenever some offset of the search window (the target included) is a
\* sentence boundary, the offset find_smart_break returns is a sentence
\* boundary: the paragraph and soft-punctuation fallbacks are not consulted.
C21_BoundaryWinsOverFallbacks ==
  BreakReturned /\ BoundariesInWindow(fb_text, fb_target) # {} =>
    is_sentence_boundary(fb_text, fb_result[1])

\* C22: with no sentence boundary in the window, find_smart_break returns the
\* paragraph break nearest to the target among those within 100 of it; with
\* none, the ',', ';' or ':' nearest to the target among those within 100 of
\* it; with none of either, the target.
C22_FallbackTakesNearest ==
  BreakReturned /\ BoundariesInWindow(fb_text, fb_target) = {} =>
    IF ParagraphOffsets(fb_text, fb_target) # {}
    THEN NearestOf(ParagraphOffsets(fb_text, fb_target), fb_result[1], fb_target)
    ELSE IF SoftOffsets(fb_text, fb_target) # {}
    THEN NearestOf(SoftOffsets(fb_text, fb_target), fb_result[1], fb_target)
    ELSE fb_result[1] = fb_target


\* what the sentence-boundary pass leaves in <<best_break, best_score>>
SentenceChoice(t, target) ==
  SentencePass(t, target, Max(0, target - SearchWindow),
               Min(Len(t), target + SearchWindow), <<target, Infinity>>)

\* the score of the claim, d * (0.5 | 0.8 | 1) * (0.7 | 1), as an exact number
\* (in hundredths, like ExactScore)
ClaimedScore(t, i, target) ==
  LET d == Abs(i - target)
  IN  d * (IF d <= 50 THEN 5 ELSE IF d <= 100 THEN 8 ELSE 10) * 10
        * (IF At(t, i) \in {".", "!", "?"} THEN 7 ELSE 10)

\* C23 as stated: the sentence-boundary pass selects, among the offsets of the
\* window that are sentence boundaries, the leftmost of those whose score
\* d * (0.5 | 0.8 | 1) * (0.7 | 1) is least.
C23_LeftmostOfLeastScore ==
  fb_result # <<>> =>
    LET B == BoundariesInWindow(fb_text, fb_target)
        sel == SentenceChoice(fb_text, fb_target)[1]
    IN  B # {} =>
          /\ sel \in B
          /\ \A j \in B : ClaimedScore(fb_text, sel, fb_target)
                            <= ClaimedScore(fb_text, j, fb_target)
          /\ \A j \in B : j < sel =>
                ClaimedScore(fb_text, sel, fb_target)
                  < ClaimedScore(fb_text, j, fb_target)

\* x < y for two floats given as <<exact value, offset in ulps>>
FloatBelow(x, y) == x[1] < y[1] \/ (x[1] = y[1] /\ x[2] < y[2])

\* C23: the sentence-boundary pass selects, among the offsets of the window
\* that are sentence boundaries, the leftmost of those whose score, as the
\* float that Python computes for d * (0.5 | 0.8 | 1) * (0.7 | 1), is least:
\* two offsets whose exact scores are equal can have different floats.  With no
\* boundary in the window nothing is selected, and a selection other than the
\* target is what find_smart_break returns.
C23_LeftmostOfLeastFloatScore ==
  fb_result # <<>> =>
    LET B == BoundariesInWindow(fb_text, fb_target)
        choice == SentenceChoice(fb_text, fb_target)
        sel == choice[1]
    IN  /\ B = {} => choice = <<fb_target, Infinity>>
        /\ B # {} =>
             /\ sel \in B
             /\ choice[2] = Score(fb_text, sel, fb_target)
             /\ choice[2][1] = ClaimedScore(fb_text, sel, fb_target)
             /\ \A j \in B : ~FloatBelow(Score(fb_text, j, fb_target), choice[2])
             /\ \A j \in B : j < sel =>
                   FloatBelow(choice[2], Score(fb_text, j, fb_target))
             /\ sel # fb_target => fb_result[1] = sel

\* the boundary 80 after the target (44.8) beats the one 56 before it
\* (44.800000000000004)
C23_Witness ==
  /\ fb_text = TieText
  /\ fb_target = 86
  /\ BoundariesInWindow(fb_text, fb_target) \cap {30, 166} = {30, 166}
  /\ fb_result = <<166>>

-----------------------------------------------------------------------------
(* is_sentence_boundary called on its own                                  *)

\* "Dr. Smith went home. He was tired."
DrSmithText ==
  <<"D", "r", ".", " ", "S", "m", "i", "t", "h", " ", "w", "e", "n", "t",
    " ", "h", "o", "m", "e", ".", " ", "H", "e", " ", "w", "a", "s", " ",
    "t", "i", "r", "e", "d", ".">>

BoundaryTexts ==
  {DrSmithText} \cup UNION { [1..n -> BreakAlphabet] : n \in 0..MaxBreakLen }

BoundaryInit == IdleSplit /\ IdleNotSplit

\* is_sentence_boundary(text, pos) is called and returns
BoundaryCall ==
  /\ sb_result = <<>>
  /\ \E t \in BoundaryTexts : \E pos \in 0..Len(t) :
        /\ sb_text' = t
        /\ sb_pos' = pos
        /\ sb_result' = <<is_sentence_boundary(t, pos)>>
  /\ UNCHANGED not_boundary

BoundaryNext == BoundaryCall

BoundarySpec == BoundaryInit /\ [][BoundaryNext]_vars

\* C13: in "Dr. Smith went home. He was tired." the period after "Dr" (offset 2)
\* is not a sentence boundary and the period after "home" (offset 19) is one.
C13_DrSmithBoundaries ==
  sb_result # <<>> /\ sb_text = DrSmithText =>
    /\ sb_pos = 2 => sb_result[1] = FALSE
    /\ sb_pos = 19 => sb_result[1] = TRUE

\* some '.', '!' or '?' lies in text[pos:pos+10]
PunctuationAhead(t, pos) ==
  \E i \in pos..(pos + 9) : i < Len(t) /\ At(t, i) \in {".", "!", "?"}

\* text[pos:pos+10] holds a run of '.', '!' or '?', then any quotes, then a
\* whitespace character
EndingAhead(t, pos) ==
  \E i \in pos..(pos + 9) : \E j \in (i + 1)..(pos + 9) :
    /\ j < Len(t)
    /\ At(t, i) \in {".", "!", "?"}
    /\ IsSpace(At(t, j))
    /\ \A x \in (i + 1)..(j - 1) : At(t, x) \in {".", "!", "?", "\"", "'"}
    /\ \A x \in (i + 1)..(j - 1) : \A y \in (x + 1)..(j - 1) :
          At(t, x) \in {"\"", "'"} => At(t, y) \in {"\"", "'"}

\* an abbreviation occurs in text[max(0, pos-30):pos+1]
AbbreviationBefore(t, pos) ==
  \E abbr \in abbreviations : Contains(Slice(t, Max(0, pos - 30), pos + 1), abbr)

\* C24 as stated: at an offset below len(text) - 1, is_sentence_boundary is true
\* exactly when a '.', '!' or '?' occurs within the next 10 characters and no
\* abbreviation occurs in the window before the offset; from len(text) - 1 on
\* it is true.
C24_BoundaryIffPunctuationAhead ==
  sb_result # <<>> =>
    sb_result[1] = IF sb_pos >= Len(sb_text) - 1 THEN TRUE
                   ELSE PunctuationAhead(sb_text, sb_pos)
                        /\ ~AbbreviationBefore(sb_text, sb_pos)

\* C24: at an offset below len(text) - 1, is_sentence_boundary is true exactly
\* when text[pos:pos+10] holds one or more of '.', '!', '?', then any closing
\* quotes, then at least one whitespace character, and no abbreviation occurs
\* in text[max(0, pos-30):pos+1]; from len(text) - 1 on it is true.
C24_BoundaryIffEndingAhead ==
  sb_result # <<>> =>
    sb_result[1] = IF sb_pos >= Len(sb_text) - 1 THEN TRUE
                   ELSE EndingAhead(sb_text, sb_pos)
                        /\ ~AbbreviationBefore(sb_text, sb_pos)

\* a full stop with no whitespace behind it, two characters before the end
C24_Witness ==
  /\ sb_result = <<FALSE>>
  /\ sb_pos < Len(sb_text) - 1
  /\ PunctuationAhead(sb_text, sb_pos)
  /\ ~AbbreviationBefore(sb_text, sb_pos)


-----------------------------------------------------------------------------
(* clean_text applied to a raw text, and again to its own result           *)

MaxCleanLen == 4
CleanAlphabet == {"a", "7", " ", ".", NL}
\* a page number on a line of its own between two lines of text
PageNumberText == <<"a", NL, "7", NL, "b">>
CleanTexts == UNION { [1..n -> CleanAlphabet] : n \in 0..MaxCleanLen } \cup {PageNumberText}

CleanInit == IdleSplit /\ IdleNotSplit

\* clean_text(raw)
CleanOnce ==
  /\ ct_once = <<>>
  /\ \E raw \in CleanTexts :
        /\ ct_raw' = raw
        /\ ct_once' = <<clean_text(raw)>>
  /\ UNCHANGED <<ct_twice, cq_once, not_clean>>

\* clean_text(clean_text(raw))
CleanAgain ==
  /\ ct_once # <<>>
  /\ ct_twice = <<>>
  /\ ct_twice' = <<clean_text(ct_once[1])>>
  /\ UNCHANGED <<ct_raw, ct_once, cq_once, not_clean>>

\* clean_query(raw) on the text clean_text was given
CleanQuery ==
  /\ ct_once # <<>>
  /\ cq_once = <<>>
  /\ cq_once' = <<clean_query(ct_raw)>>
  /\ UNCHANGED <<ct_raw, ct_once, ct_twice, not_clean>>

CleanNext == CleanOnce \/ CleanAgain \/ CleanQuery

CleanSpec == CleanInit /\ [][CleanNext]_vars

\* C4: clean_text is idempotent: clean_text(clean_text(x)) = clean_text(x) for
\* every string x.
C4_CleanTextIdempotent == ct_twice # <<>> => ct_twice[1] = ct_once[1]

\* C15 as claimed: for every query q, clean_query(q) = clean_text(q).
C15_CleanQuerySameAsCleanText == cq_once # <<>> => cq_once[1] = ct_once[1]

\* one or more digits followed by optional whitespace: what the page-number rule
\* of clean_text erases once the whitespace is collapsed
IsPageNumber(s) ==
  \E d \in 1..Len(s) :
    /\ \A i \in 1..d : IsDigit(s[i])
    /\ \A i \in (d + 1)..Len(s) : IsSpace(s[i])

\* C15 as amended: for every query q that is not one or more digits followed by
\* optional whitespace, clean_query(q) = clean_text(q); for the others clean_text
\* gives the empty string and clean_query the digits.
C15_CleanQuerySameUnlessPageNumber ==
  cq_once # <<>> =>
    IF IsPageNumber(ct_raw)
    THEN ct_once[1] = <<>> /\ cq_once[1] = SelectSeq(ct_raw, IsDigit)
    ELSE cq_once[1] = ct_once[1]

\* a query with a digit in it that both functions rewrite, to the same text
C15_Witness ==
  /\ cq_once # <<>>
  /\ ~IsPageNumber(ct_raw)
  /\ \E i \in 1..Len(ct_raw) : IsDigit(ct_raw[i])
  /\ cq_once[1] # ct_raw
  /\ cq_once[1] # <<>>
  /\ cq_once[1] = ct_once[1]

\* raw[a] and raw[b] are newlines with nothing but digits between them, a line
\* before the first and a line after the second
DigitLineBetween(raw, a, b) ==
  /\ 1 < a /\ a + 1 < b /\ b < Len(raw)
  /\ raw[a] = NL /\ raw[b] = NL
  /\ \A i \in (a + 1)..(b - 1) : IsDigit(raw[i])

\* C25: when a line of the raw text consists solely of digits and stands
\* between other lines, clean_text removes it: if the text has no other digits,
\* the output has no digit.
C25_DigitLinesRemoved ==
  ct_once # <<>> =>
    \A a \in 1..Len(ct_raw) : \A b \in 1..Len(ct_raw) :
      /\ DigitLineBetween(ct_raw, a, b)
      /\ \A i \in 1..Len(ct_raw) : IsDigit(ct_raw[i]) => a < i /\ i < b
      => \A k \in 1..Len(ct_once[1]) : ~IsDigit(ct_once[1][k])


-----------------------------------------------------------------------------
(* RAGChatSystem: quality filter and chat()                                *)
(* A match is <<doc, score>>; scores and the threshold are doubles.        *)

One == 100

\* 1 - (0.45 + k ulp), in units in the last place of 0.55 counted from the double
\* 1 - 0.45. 0.45 is 0x1.ccccccccccccdp-2 and 1 - 0.45 rounds up by half a unit to
\* 0x1.199999999999ap-1, whose last digit is even; one unit of 0.55 is two of 0.45;
\* a difference halfway between two doubles rounds to the even one.
RoundedDifference(k) ==
  LET halves == (0 - k) - 1
      lo == halves \div 2
  IN  IF halves % 2 = 0 THEN lo
      ELSE IF lo % 2 = 0 THEN lo ELSE lo + 1

\* line 80: distance = 1 - score, as <<hundredths, units in the last place>>
Distance(score) ==
  <<One - score[1],
    IF score[1] = DefaultThreshold THEN RoundedDifference(score[2]) ELSE 0>>

\* x <= y on doubles given as <<hundredths, units in the last place>>
FloatLessEq(x, y) == x[1] < y[1] \/ (x[1] = y[1] /\ x[2] <= y[2])

\* compares the distance with the threshold itself
KeepMatch_NoConversion(score, threshold) == FloatLessEq(Distance(score), threshold)

\* filter_quality_results lines 80-81: distance = 1 - score; distance <= 1 - threshold
KeepMatch(score, threshold) == FloatLessEq(Distance(score), Distance(threshold))

\* puts the kept match in front of the ones kept before
AppendMatch_Prepend(quality, match) == <<match>> \o quality

\* line 82: quality_results.append((doc, score))
AppendMatch(quality, match) == Append(quality, match)

\* the for loop of filter_quality_results (lines 78-82) over the rest of results
RECURSIVE FilterLoop(_, _, _)
FilterLoop(results, threshold, quality) ==
  IF results = <<>> THEN quality
  ELSE FilterLoop(Tail(results), threshold,
                  IF KeepMatch(Head(results)[2], threshold)
                  THEN AppendMatch(quality, Head(results))
                  ELSE quality)

filter_quality_results(results, threshold) == FilterLoop(results, threshold, <<>>)

\* str() of the threshold as the f-string of line 277 renders it
FormatThreshold(threshold) ==
  IF threshold[1] % 10 = 0
  THEN <<"0.", threshold[1] \div 10>>
  ELSE <<"0.", threshold[1] \div 10, threshold[1] % 10>>

\* chat() line 248
NoDocumentsMessage ==
  <<"No documents found in the database. Please check if documents have been ingested.">>

\* chat() line 277
BelowThresholdMessage(threshold) ==
  <<"No documents met the quality threshold (similarity score >= ",
    FormatThreshold(threshold),
    "). The available information may not be relevant enough to answer your question accurately.">>

\* get_ai_response line 149
GenerationErrorMessage == <<"Error getting AI response: ", "e">>

\* what the language model may answer
Answers == {<<"answer 1">>, <<"answer", " ", "2">>}

MaxResults == 3
Docs == {"doc1", "doc2"}
\* offsets, in units in the last place, of the scores next to the threshold
NearThreshold == {-2, -1, 0, 1}
Scores == {Float(30), Float(90)} \cup { <<DefaultThreshold, k>> : k \in NearThreshold }
Thresholds == { Float(h) : h \in {0, 30, 45, 46, 60, 100} }
Matches == Docs \X Scores
ResultLists == UNION { [1..n -> Matches] : n \in 0..MaxResults }

ChatInit == IdleSplit /\ IdleNotSplit

\* {score:.3f} at line 101: three decimals, the last places of the double are lost
FormatScore(score) ==
  <<score[1] \div One, ".", (score[1] % One) \div 10, score[1] % 10, 0>>

\* create_ai_prompt lines 97-125: the question and one numbered block per document
create_ai_prompt(q, relevant_docs) ==
  [question |-> q,
   context |-> [i \in 1..Len(relevant_docs) |->
                  [number |-> i,
                   score |-> FormatScore(relevant_docs[i][2]),
                   doc |-> relevant_docs[i][1]]]]

\* queries a user may type
ChatQueries == {<<"q">>, <<" ", "q", " ", " ", "?">>}

\* chat() lines 230-242: the query is cleaned and analysed
ChatClean ==
  /\ chat_pc = "idle"
  /\ \E q \in ChatQueries :
        /\ query' = q
        /\ cleaned_query' = clean_query(q)
  /\ calls' = Append(calls, "clean")
  /\ chat_pc' = "search"
  /\ UNCHANGED <<similarity_threshold, search_results, quality_results, response,
                 search_error, prompt, llm_reply, generation_error, not_chat>>

\* chat() line 245, search_documents lines 60-61: the vector store answers
ChatSearch ==
  /\ chat_pc = "search"
  /\ \E results \in ResultLists : search_results' = results
  /\ calls' = Append(calls, "search")
  /\ chat_pc' = "searched"
  /\ UNCHANGED <<similarity_threshold, quality_results, response, search_error,
                 query, cleaned_query, prompt, llm_reply, generation_error, not_chat>>

\* chat() line 245, search_documents lines 62-64: the vector store raises, the
\* error is printed and [] is returned
ChatSearchFails ==
  /\ chat_pc = "search"
  /\ search_results' = <<>>
  /\ search_error' = TRUE
  /\ calls' = Append(calls, "search")
  /\ chat_pc' = "searched"
  /\ UNCHANGED <<similarity_threshold, quality_results, response,
                 query, cleaned_query, prompt, llm_reply, generation_error, not_chat>>

\* chat() without the early return: an empty search result goes on to the filter
ChatNoDocuments_FallsThrough ==
  /\ chat_pc = "searched"
  /\ search_results = <<>>
  /\ quality_results' = filter_quality_results(search_results, similarity_threshold)
  /\ calls' = Append(calls, "filter")
  /\ chat_pc' = "filtered"
  /\ UNCHANGED <<similarity_threshold, search_results, response, search_error,
                 query, cleaned_query, prompt, llm_reply, generation_error, not_chat>>

\* chat() lines 247-248
ChatNoDocuments ==
  /\ chat_pc = "searched"
  /\ search_results = <<>>
  /\ response' = NoDocumentsMessage
  /\ chat_pc' = "done"
  /\ UNCHANGED <<similarity_threshold, search_results, quality_results, search_error,
                 query, cleaned_query, prompt, llm_reply, generation_error, calls,
                 not_chat>>

\* chat() line 261
ChatFilter ==
  /\ chat_pc = "searched"
  /\ search_results # <<>>
  /\ quality_results' = filter_quality_results(search_results, similarity_threshold)
  /\ calls' = Append(calls, "filter")
  /\ chat_pc' = "filtered"
  /\ UNCHANGED <<similarity_threshold, search_results, response, search_error,
                 query, cleaned_query, prompt, llm_reply, generation_error, not_chat>>

\* chat() lines 273-277
ChatBelowThreshold ==
  /\ chat_pc = "filtered"
  /\ quality_results = <<>>
  /\ response' = BelowThresholdMessage(similarity_threshold)
  /\ chat_pc' = "done"
  /\ UNCHANGED <<similarity_threshold, search_results, quality_results, search_error,
                 query, cleaned_query, prompt, llm_reply, generation_error, calls,
                 not_chat>>

\* chat() line 280: the prompt is built from the query as given
ChatPrompt ==
  /\ chat_pc = "filtered"
  /\ quality_results # <<>>
  /\ prompt' = <<create_ai_prompt(query, quality_results)>>
  /\ chat_pc' = "prompted"
  /\ UNCHANGED <<similarity_threshold, search_results, quality_results, response,
                 search_error, query, cleaned_query, llm_reply, generation_error,
                 calls, not_chat>>

\* the reply handed to chat()'s caller is cut to its first token
ChatReturns_Truncated(answer) == SubSeq(answer, 1, 1)

\* chat() lines 284-286, get_ai_response line 146: the reply is returned as it is
ChatReturns(answer) == answer

\* chat() lines 284-286 with get_ai_response lines 137-146
ChatGenerate ==
  /\ chat_pc = "prompted"
  /\ \E answer \in Answers :
        /\ llm_reply' = <<answer>>
        /\ response' = ChatReturns(answer)
  /\ calls' = Append(calls, "generate")
  /\ chat_pc' = "done"
  /\ UNCHANGED <<similarity_threshold, search_results, quality_results, search_error,
                 query, cleaned_query, prompt, generation_error, not_chat>>

\* chat() lines 284-286 with get_ai_response lines 148-149: the model raises and
\* the error text is returned like an answer
ChatGenerateFails ==
  /\ chat_pc = "prompted"
  /\ generation_error' = TRUE
  /\ response' = GenerationErrorMessage
  /\ calls' = Append(calls, "generate")
  /\ chat_pc' = "done"
  /\ UNCHANGED <<similarity_threshold, search_results, quality_results, search_error,
                 query, cleaned_query, prompt, llm_reply, not_chat>>

ChatNext ==
  \/ ChatClean
  \/ ChatSearch
  \/ ChatSearchFails
  \/ ChatNoDocuments
  \/ ChatFilter
  \/ ChatBelowThreshold
  \/ ChatPrompt
  \/ ChatGenerate
  \/ ChatGenerateFails

ChatSpec == ChatInit /\ [][ChatNext]_vars

Range(s) == { s[i] : i \in 1..Len(s) }

Count(s, m) == Cardinality({ i \in 1..Len(s) : s[i] = m })

\* q is s with zero or more elements removed
IsSubsequence(q, s) ==
  \E f \in [1..Len(q) -> 1..Len(s)] :
    /\ \A i \in 1..Len(q) : q[i] = s[f[i]]
    /\ \A i \in 1..Len(q) : \A j \in 1..Len(q) : i < j => f[i] < f[j]

\* the matches of results whose score is at least the threshold, in order
AtOrAbove(results, threshold) ==
  SelectSeq(results, LAMBDA m : FloatLessEq(threshold, m[2]))

\* C7: the filter keeps a match exactly when 1 - score <= 1 - threshold, that is
\* when score >= threshold; [(doc1, 0.9), (doc2, 0.3)] at 0.45 gives [(doc1, 0.9)].
C7_KeepsExactlyAtOrAboveThreshold ==
  /\ \A t \in Thresholds :
        filter_quality_results(search_results, t) = AtOrAbove(search_results, t)
  /\ chat_pc = "filtered" =>
        quality_results = AtOrAbove(search_results, similarity_threshold)
  /\ filter_quality_results(<<<<"doc1", Float(90)>>, <<"doc2", Float(30)>>>>,
                            Float(45))
        = <<<<"doc1", Float(90)>>>>

\* C8: for thresholds t1 <= t2 and the same input, the matches kept with t2 are a
\* subset of those kept with t1: raising the threshold never keeps more.
C8_MonotoneInThreshold ==
  \A t1 \in Thresholds : \A t2 \in Thresholds :
    FloatLessEq(t1, t2) =>
      LET kept1 == filter_quality_results(search_results, t1)
          kept2 == filter_quality_results(search_results, t2)
      IN  /\ IsSubsequence(kept2, kept1)
          /\ Len(kept2) <= Len(kept1)

\* an input of which a higher threshold keeps some matches and strictly fewer
C8_Witness ==
  /\ chat_pc = "filtered"
  /\ quality_results # <<>>
  /\ Len(filter_quality_results(search_results, Float(46))) < Len(quality_results)
  /\ Len(quality_results) < Len(filter_quality_results(search_results, Float(30)))

\* C9: the filter returns a subsequence of its input: order unchanged, every kept
\* match as often as in the input, scores unchanged, the input list unmodified,
\* and an empty input gives an empty output.
C9_ReturnsSubsequence ==
  /\ [](chat_pc = "filtered" =>
          /\ IsSubsequence(quality_results, search_results)
          /\ \A m \in Range(quality_results) :
                Count(quality_results, m) = Count(search_results, m))
  /\ [](\A t \in Thresholds : filter_quality_results(<<>>, t) = <<>>)
  /\ [][chat_pc = "searched" => search_results' = search_results]_vars

\* a repeated match and a rejected one between two kept ones
C9_Witness ==
  /\ chat_pc = "filtered"
  /\ Len(search_results) = 3
  /\ Len(quality_results) = 2
  /\ quality_results[1] # quality_results[2]
  /\ search_results[1] = quality_results[1]
  /\ search_results[3] = quality_results[2]

\* C10: a search with zero matches always ends in the no-documents answer, never
\* the below-threshold one; a search with at least one match of which none passes
\* ends in the below-threshold answer, which names the threshold; the two answers
\* differ.
C10_NoMatchesVersusBelowThreshold ==
  /\ chat_pc = "done" /\ search_results = <<>> =>
        /\ response = NoDocumentsMessage
        /\ response # BelowThresholdMessage(similarity_threshold)
  /\ ( /\ chat_pc = "done"
       /\ search_results # <<>>
       /\ filter_quality_results(search_results, similarity_threshold) = <<>> ) =>
        /\ response = BelowThresholdMessage(similarity_threshold)
        /\ response[2] = FormatThreshold(similarity_threshold)
        /\ response # NoDocumentsMessage

\* a finished chat whose search had matches, all below the threshold
C10_Witness ==
  /\ chat_pc = "done"
  /\ Len(search_results) >= 2
  /\ filter_quality_results(search_results, similarity_threshold) = <<>>
  /\ response = BelowThresholdMessage(similarity_threshold)

\* the order of chat()'s calls
StepOrder == <<"clean", "search", "filter", "generate">>

\* C11: chat's steps occur in the order clean, search, filter, generate; the
\* generation service is invoked exactly when a match survives the filter, and at
\* most once; the prompt holds the surviving matches in their filtered order and
\* nothing else; the service's text is returned to the caller unchanged.
C11_StepOrderAndGeneration ==
  /\ Len(calls) <= Len(StepOrder)
  /\ calls = SubSeq(StepOrder, 1, Len(calls))
  /\ Count(calls, "generate") <= 1
  /\ chat_pc = "done" =>
        ( Count(calls, "generate") = 1
            <=> filter_quality_results(search_results, similarity_threshold) # <<>> )
  /\ prompt # <<>> =>
        /\ Len(prompt[1].context) = Len(quality_results)
        /\ \A i \in 1..Len(quality_results) :
              /\ prompt[1].context[i].doc = quality_results[i][1]
              /\ prompt[1].context[i].number = i
        /\ quality_results = filter_quality_results(search_results, similarity_threshold)
  /\ chat_pc = "done" /\ llm_reply # <<>> => response = llm_reply[1]

\* a finished chat in which two of three matches survived and the model's reply
\* of several tokens came back
C11_Witness ==
  /\ chat_pc = "done"
  /\ calls = StepOrder
  /\ Len(search_results) = 3
  /\ Len(quality_results) = 2
  /\ quality_results[1][1] # quality_results[2][1]
  /\ llm_reply # <<>>
  /\ Len(response) = 3

\* C12: a failure of the similarity search reaches chat's caller as a failure that
\* differs from the no-documents answer, the below-threshold answer and a
\* generated answer; a failure of the generation service reaches the caller as a
\* failure, not as returned text; neither call is made twice.
C12_FailuresPropagate ==
  /\ chat_pc = "done" /\ search_error =>
        response \notin
          {NoDocumentsMessage, BelowThresholdMessage(similarity_threshold)} \cup Answers
  /\ generation_error => chat_pc = "failed"
  /\ Count(calls, "search") <= 1
  /\ Count(calls, "generate") <= 1

-----------------------------------------------------------------------------
(* Ingestion: split_pdf_smart / load_and_split_pdf, then ingest_to_pgvector *)

\* split_text_smart lines 182-207 as a function of the text: the loop from start
RECURSIVE SplitLoop(_, _, _, _, _, _)
SplitLoop(t, s, cs, size, overlap, min_size) ==
  IF s >= Len(t) THEN cs
  ELSE IF s + size >= Len(t)
  THEN Emit(cs, Strip(Slice(t, s, Len(t))), min_size)
  ELSE LET break_pos == find_smart_break(t, s + size)
           kept == Emit(cs, Strip(Slice(t, s, break_pos)), min_size)
           next == NextStart(s, break_pos, overlap)
       IN  IF next >= Len(t) THEN kept
           ELSE SplitLoop(t, next, kept, size, overlap, min_size)

split_text_smart(t, size, overlap, min_size) ==
  SplitLoop(t, 0, <<>>, size, overlap, min_size)

\* split_pdf_smart lines 239-251: the documents of page number p (0-based, from
\* the loader's metadata); chunk_index is the position in the page's own chunk
\* list (line 242, enumerate from 0)
PageDocuments(page_text, p, size, overlap, min_size) ==
  LET text_chunks == split_text_smart(clean_text(page_text), size, overlap, min_size)
  IN  [i \in 1..Len(text_chunks) |->
         [page |-> p,
          chunk_index |-> i - 1,
          chunk_size |-> Len(text_chunks[i]),
          content |-> text_chunks[i]]]

\* split_pdf_smart lines 229-251: the loop over the pages
RECURSIVE PagesLoop(_, _, _, _, _, _)
PagesLoop(pages, p, all_chunks, size, overlap, min_size) ==
  IF p > Len(pages) THEN all_chunks
  ELSE PagesLoop(pages, p + 1,
                 all_chunks \o PageDocuments(pages[p], p - 1, size, overlap, min_size),
                 size, overlap, min_size)

split_pdf_smart(pages, size, overlap, min_size) ==
  PagesLoop(pages, 1, <<>>, size, overlap, min_size)

\* RecursiveCharacterTextSplitter.split_documents (pdf_loader.py line 46) is a
\* library call: it is taken to give one document per page that has text
RECURSIVE PlainSplits(_, _)
PlainSplits(pages, p) ==
  IF p > Len(pages) THEN <<>>
  ELSE (IF Strip(pages[p]) = <<>> THEN <<>>
        ELSE <<[page |-> p - 1, content |-> Strip(pages[p])]>>)
       \o PlainSplits(pages, p + 1)

\* ingest_to_pgvector lines 38-55: chunk_index is set to the position in the
\* batch and the row id is "doc-<position>"
Enriched(splits) ==
  [i \in 1..Len(splits) |->
     [id |-> <<"doc-", i - 1>>,
      page |-> splits[i].page,
      chunk_index |-> i - 1,
      content |-> splits[i].content]]

\* store.add_documents(documents=enriched, ids=ids) (line 73) on a table keyed
\* by id: the row of an id that is there is replaced, the others are added, and
\* rows of other ids stay.  The ids of a batch are doc-0, doc-1, ... in order,
\* so the row of doc-(i-1) is kept at position i.
Upsert_Replace(store, rows) == rows

Upsert(store, rows) ==
  [i \in 1..Max(Len(store), Len(rows)) |->
     IF i <= Len(rows) THEN rows[i] ELSE store[i]]

MaxPages == 2
PageTexts ==
  { <<>>, <<"a">>, <<"a", "a", ".", " ", "a">>, <<" ", "7">>,
    <<"a", " ", "a", "a">>, <<".", " ", ".">>,
    <<"a", NL, NL, "a">>, <<"a", ",", NL, NL, "a", "a">> }
PdfPageLists == UNION { [1..n -> PageTexts] : n \in 0..MaxPages }
PdfConfigs ==
  { [chunk_size |-> 2, chunk_overlap |-> 0, min_chunk_size |-> 0],
    [chunk_size |-> 3, chunk_overlap |-> 1, min_chunk_size |-> 1],
    [chunk_size |-> 2, chunk_overlap |-> 1, min_chunk_size |-> 2] }

\* SmartPDFSplitter.__init__ with one of the configurations, no call made
PdfInit ==
  /\ \E c \in PdfConfigs :
        /\ chunk_size = c.chunk_size
        /\ chunk_overlap = c.chunk_overlap
        /\ min_chunk_size = c.min_chunk_size
        /\ max_chunk_size = DefaultMaxChunk
  /\ text = <<>> /\ start = 0 /\ chunks = <<>> /\ pc = "idle"
  /\ iter_spans = <<>> /\ chunk_spans = <<>>
  /\ IdleNotSplit

\* split_pdf_smart (lines 221-259) with the loader giving the pages
PdfSmartSplit ==
  /\ pdf_pc = "idle"
  /\ \E pages \in PdfPageLists :
        /\ pdf_pages' = pages
        /\ pdf_docs' = split_pdf_smart(pages, chunk_size, chunk_overlap, min_chunk_size)
  /\ pdf_entry' = "smart"
  /\ pdf_pc' = "split"
  /\ UNCHANGED <<load_error, store_docs, ingested, not_pdf>>

\* split_pdf_smart lines 224-225: PyPDFLoader raises; nothing catches it, neither
\* in load_and_split_pdf_smart nor in the ingestion script's main
PdfSmartLoadFails ==
  /\ pdf_pc = "idle"
  /\ pdf_entry' = "smart"
  /\ load_error' = TRUE
  /\ pdf_pc' = "load_raised"
  /\ UNCHANGED <<pdf_pages, pdf_docs, store_docs, ingested, not_pdf>>

\* load_and_split_pdf (pdf_loader.py lines 31-62) with the loader giving the pages
PdfPlainSplit ==
  /\ pdf_pc = "idle"
  /\ \E pages \in PdfPageLists :
        /\ pdf_pages' = pages
        /\ pdf_docs' = PlainSplits(pages, 1)
  /\ pdf_entry' = "plain"
  /\ pdf_pc' = "split"
  /\ UNCHANGED <<load_error, store_docs, ingested, not_pdf>>

\* load_and_split_pdf lines 35-37: PyPDFLoader raises, [] is returned
PdfPlainLoadFails ==
  /\ pdf_pc = "idle"
  /\ pdf_entry' = "plain"
  /\ load_error' = TRUE
  /\ pdf_docs' = <<>>
  /\ pdf_pc' = "split"
  /\ UNCHANGED <<pdf_pages, store_docs, ingested, not_pdf>>

\* ingest_to_pgvector lines 38-78 on the returned documents: rows are written
\* under their ids
PdfIngest ==
  /\ pdf_pc = "split"
  /\ store_docs' = Upsert(store_docs, Enriched(pdf_docs))
  /\ ingested' = Append(ingested, pdf_docs)
  /\ pdf_pc' = "ingested"
  /\ UNCHANGED <<pdf_entry, pdf_pages, pdf_docs, load_error, not_pdf>>

\* ingest_to_pgvector lines 24-27: a required environment variable is missing
PdfIngestFails ==
  /\ pdf_pc = "split"
  /\ pdf_pc' = "ingest_raised"
  /\ UNCHANGED <<pdf_entry, pdf_pages, pdf_docs, load_error, store_docs, ingested, not_pdf>>

PdfNext ==
  \/ PdfSmartSplit
  \/ PdfSmartLoadFails
  \/ PdfPlainSplit
  \/ PdfPlainLoadFails
  \/ PdfIngest
  \/ PdfIngestFails

PdfSpec == PdfInit /\ [][PdfNext]_vars

\* C16: in the documents split_pdf_smart returns for one PDF, chunk_index counts
\* on through the batch and no two documents have the same chunk_index.
C16_ChunkIndexUniqueInBatch ==
  pdf_entry = "smart" /\ pdf_pc = "split" =>
    /\ \A i \in 1..Len(pdf_docs) : pdf_docs[i].chunk_index = i - 1
    /\ \A i \in 1..Len(pdf_docs) : \A j \in 1..Len(pdf_docs) :
          i # j => pdf_docs[i].chunk_index # pdf_docs[j].chunk_index

\* C19: when the PDF loader fails, load_and_split_pdf and split_pdf_smart both
\* return an empty list of chunks and raise nothing, and nothing is written to
\* the store.
C19_LoadFailureGivesNoChunks ==
  load_error =>
    /\ pdf_pc # "load_raised"
    /\ pdf_docs = <<>>
    /\ store_docs = <<>>

-----------------------------------------------------------------------------
(* ingest_to_pgvector called again and again on one collection             *)

MaxBatch == 2
MaxRuns == 3

\* splits: the documents a splitter returned, at least one
BatchDocs == { [page |-> 0, content |-> <<c>>] : c \in {"x", "y"} }
Batches == UNION { [1..n -> BatchDocs] : n \in 1..MaxBatch }

StoreInit == IdleSplit /\ IdleNotSplit

\* ingest_to_pgvector(splits) returns (lines 37-78)
StoreIngest ==
  /\ Len(ingested) < MaxRuns
  /\ \E splits \in Batches :
        /\ pdf_docs' = splits
        /\ store_docs' = Upsert(store_docs, Enriched(splits))
        /\ ingested' = Append(ingested, splits)
  /\ pdf_pc' = "ingested"
  /\ UNCHANGED <<pdf_entry, pdf_pages, load_error, not_pdf>>

\* ingest_to_pgvector(splits) raises at lines 24-27, before anything is written
StoreIngestFails ==
  /\ Len(ingested) < MaxRuns
  /\ \E splits \in Batches : pdf_docs' = splits
  /\ pdf_pc' = "ingest_raised"
  /\ UNCHANGED <<pdf_entry, pdf_pages, load_error, store_docs, ingested, not_pdf>>

StoreNext == StoreIngest \/ StoreIngestFails

StoreSpec == StoreInit /\ [][StoreNext]_vars

\* the rows of the store under id 'doc-i'
RowsAt(i) == { j \in 1..Len(store_docs) : store_docs[j].id = <<"doc-", i>> }

\* the batches ingested so far that had more than i chunks
BatchesLongerThan(i) == { k \in 1..Len(ingested) : Len(ingested[k]) > i }

\* C29: after any sequence of ingestions into one collection, the row under id
\* 'doc-i' is the i-th chunk of the most recent batch that had more than i
\* chunks, with chunk_index i, and there is no such row if no batch had more
\* than i chunks; ingesting the batch that was ingested last again leaves the
\* store as it is.
C29_LatestBatchWinsPerId ==
  /\ [](\A i \in 0..MaxBatch :
          IF BatchesLongerThan(i) = {}
          THEN RowsAt(i) = {}
          ELSE LET k == CHOOSE k \in BatchesLongerThan(i) :
                          \A m \in BatchesLongerThan(i) : m <= k
               IN  /\ Cardinality(RowsAt(i)) = 1
                   /\ \A j \in RowsAt(i) :
                         /\ store_docs[j].content = ingested[k][i + 1].content
                         /\ store_docs[j].chunk_index = i)
  /\ [][ /\ Len(ingested) > 0
         /\ ingested' = Append(ingested, ingested[Len(ingested)])
         => store_docs' = store_docs ]_vars

\* a batch of one chunk ingested after a batch of two: the first row is the new
\* chunk, the second row is still the old batch's second chunk
C29_Witness ==
  /\ Len(ingested) = 2
  /\ Len(ingested[1]) = 2 /\ Len(ingested[2]) = 1
  /\ ingested[1][1].content # ingested[2][1].content
  /\ Len(store_docs) = 2
  /\ store_docs[1].content = ingested[2][1].content
  /\ store_docs[2].content = ingested[1][2].content


-----------------------------------------------------------------------------
(* MCP servers: RAGManager (mcp_server.py) and FlexibleRAGManager          *)
(* (mcp_server_flexible.py) behind handle_list_tools and handle_call_tool  *)

EnvVars == {"OPENAI_API_KEY", "PGVECTOR_URL", "PGVECTOR_COLLECTION"}
AllTools == {"rag_search", "rag_ingest_pdf", "rag_get_stats"}

\* _check_environment: the required variables that are not set
MissingVars == EnvVars \ env_set

\* the envelopes the managers and the tool handler build; an error text is the
\* sequence of the parts its f-string joins
UnavailableEnvelope ==
  [error |-> <<"RAG functionality not available">>, success |-> FALSE,
   details |-> "RAG components could not be imported"]

NoApiKeyEnvelope ==
  [error |-> <<"OpenAI API key not configured">>, success |-> FALSE,
   details |-> "Set OPENAI_API_KEY in your .env file to use search functionality"]

MissingVarsEnvelope ==
  [error |-> <<"Missing required environment variables">>, success |-> FALSE,
   details |-> MissingVars]

SearchFailedEnvelope == [error |-> <<"Search failed: ", "e">>, success |-> FALSE]

SearchEnvelope(q, n) ==
  [success |-> TRUE, query |-> q, results_count |-> n, results |-> n]

NotFoundEnvelope(pdf_path) ==
  [error |-> <<"PDF file not found: ", pdf_path>>, success |-> FALSE]

LoadFailedEnvelope ==
  [error |-> <<"Failed to load and split PDF">>, success |-> FALSE]

IngestionFailedEnvelope ==
  [error |-> <<"Ingestion failed: ", "e">>, success |-> FALSE]

\* the ingestion info recording the default chunk settings
IngestionInfo_Defaults(pdf_path, n, size, overlap) ==
  [pdf_path |-> pdf_path, chunks_created |-> n,
   chunk_size |-> 1000, chunk_overlap |-> 150]

IngestionInfo(pdf_path, n, size, overlap) ==
  [pdf_path |-> pdf_path, chunks_created |-> n,
   chunk_size |-> size, chunk_overlap |-> overlap]

IngestedEnvelope(pdf_path, n, size, overlap) ==
  [success |-> TRUE, message |-> <<"Successfully ingested ", n, " chunks">>,
   pdf_path |-> pdf_path, chunks_created |-> n,
   chunk_size |-> size, chunk_overlap |-> overlap]

StatsEnvelope(store, initialized, info) ==
  IF info = <<>>
  THEN [success |-> TRUE, environment |-> env_set,
        vector_store |-> store, is_initialized |-> initialized]
  ELSE [success |-> TRUE, environment |-> env_set,
        vector_store |-> store, is_initialized |-> initialized,
        last_ingestion |-> info[1]]

UnknownToolEnvelope(name, tools) ==
  [error |-> <<"Unknown tool: ", name>>, success |-> FALSE,
   available_tools |-> tools]

ToolFailedEnvelope(name, arguments) ==
  [error |-> <<"Tool execution failed: ", "e">>, success |-> FALSE,
   tool |-> name, arguments |-> arguments]

\* what an operation leaves behind: its envelope, the components it invoked and
\* the manager's fields
Outcome(result, invoked, store, initialized, info) ==
  [result |-> result, invoked |-> invoked, vector_store |-> store,
   is_initialized |-> initialized, last_ingestion_info |-> info]

Returns(result, invoked) ==
  Outcome(result, invoked, vector_store, is_initialized, last_ingestion_info)

\* search_documents(query, k); found is what search_vector_database does:
\* it raises or returns found.n results
search_documents(q, found) ==
  IF mcp_kind = "flexible" /\ ~rag_available
  THEN Returns(UnavailableEnvelope, <<>>)
  ELSE IF mcp_kind = "flexible" /\ "OPENAI_API_KEY" \in MissingVars
  THEN Returns(NoApiKeyEnvelope, <<>>)
  ELSE IF found.raises
  THEN Returns(SearchFailedEnvelope, <<"search_vector_database">>)
  ELSE Returns(SearchEnvelope(q, found.n), <<"search_vector_database">>)

\* os.path.exists(pdf_path) is false
PathMissing_Unchecked(pdf_path) == FALSE

PathMissing(pdf_path) == pdf_path \notin files

\* ingest_pdf(pdf_path, chunk_size, chunk_overlap); done is what the loader and
\* the store do: load_and_split_pdf returns done.splits chunks (none when the
\* load fails) and ingest_to_pgvector raises or stores them; it raises whenever
\* a required environment variable is missing
ingest_pdf(pdf_path, size, overlap, done) ==
  IF mcp_kind = "flexible" /\ ~rag_available
  THEN Returns(UnavailableEnvelope, <<>>)
  ELSE IF mcp_kind = "flexible" /\ MissingVars # {}
  THEN Returns(MissingVarsEnvelope, <<>>)
  ELSE IF PathMissing(pdf_path)
  THEN Returns(NotFoundEnvelope(pdf_path), <<>>)
  ELSE IF done.splits = 0
  THEN Returns(LoadFailedEnvelope, <<"load_and_split_pdf">>)
  ELSE IF done.raises \/ MissingVars # {}
  THEN Returns(IngestionFailedEnvelope,
               <<"load_and_split_pdf", "ingest_to_pgvector">>)
  ELSE Outcome(IngestedEnvelope(pdf_path, done.splits, size, overlap),
               <<"load_and_split_pdf", "ingest_to_pgvector">>,
               "store", TRUE,
               <<IngestionInfo(pdf_path, done.splits, size, overlap)>>)

\* get_system_stats()
get_system_stats ==
  Returns(StatsEnvelope(vector_store, is_initialized, last_ingestion_info), <<>>)

\* handle_list_tools()
ListedTools_All(kind, available) == AllTools

ListedTools(kind, available) ==
  IF kind = "plain" THEN AllTools
  ELSE {"rag_get_stats"} \cup
       (IF available THEN {"rag_search", "rag_ingest_pdf"} ELSE {})

\* handle_call_tool's try/except: raised says whether the dispatch or json.dumps
\* raised; the handler then answers with the error envelope, and nothing leaves it
ToolReply_NoExcept(name, arguments, result, raised) ==
  IF raised
  THEN [text |-> <<>>, escaped |-> TRUE]
  ELSE [text |-> <<result>>, escaped |-> FALSE]

ToolReply(name, arguments, result, raised) ==
  IF raised
  THEN [text |-> <<ToolFailedEnvelope(name, arguments)>>, escaped |-> FALSE]
  ELSE [text |-> <<result>>, escaped |-> FALSE]

MaxHits == 2
MaxSplits == 2

McpQueries == {"q"}
\* "" is the default handle_call_tool passes when pdf_path is not given
Paths == {"", "a.pdf", "missing.pdf"}
IngestArgs == {[chunk_size |-> 1000, chunk_overlap |-> 150],
               [chunk_size |-> 500, chunk_overlap |-> 50]}
SearchOutcomes == [raises : BOOLEAN, n : 0..MaxHits]
IngestOutcomes == [raises : BOOLEAN, splits : 0..MaxSplits]
ToolNames == AllTools \cup {"rag_delete"}

NoCall == [op |-> "none", via |-> "none", pdf_path |-> ""]
Call(op, via, pdf_path) == [op |-> op, via |-> via, pdf_path |-> pdf_path]

McpInit ==
  /\ IdleSplit /\ IdleNotMcp
  /\ mcp_kind \in {"plain", "flexible"}
  /\ rag_available \in (IF mcp_kind = "plain" THEN {TRUE} ELSE BOOLEAN)
  /\ env_set \in SUBSET EnvVars
  /\ files \in {{}, {"a.pdf"}}
  /\ NewManager

\* a manager method called directly: the envelope is what the caller gets
ManagerReturns(call, out) ==
  /\ mcp_op' = call
  /\ mcp_result' = <<out.result>>
  /\ mcp_invoked' = out.invoked
  /\ mcp_escaped' = FALSE
  /\ vector_store' = out.vector_store
  /\ is_initialized' = out.is_initialized
  /\ last_ingestion_info' = out.last_ingestion_info
  /\ UNCHANGED <<mcp_world, tools_listed, not_mcp>>

McpSearch ==
  \E q \in McpQueries : \E found \in SearchOutcomes :
    ManagerReturns(Call("search_documents", "manager", ""),
                   search_documents(q, found))

McpIngest ==
  \E pdf_path \in Paths : \E a \in IngestArgs : \E done \in IngestOutcomes :
    ManagerReturns(Call("ingest_pdf", "manager", pdf_path),
                   ingest_pdf(pdf_path, a.chunk_size, a.chunk_overlap, done))

McpStats ==
  ManagerReturns(Call("get_system_stats", "manager", ""), get_system_stats)

McpListTools ==
  /\ tools_listed' = ListedTools(mcp_kind, rag_available)
  /\ mcp_op' = Call("list_tools", "tool", "")
  /\ mcp_result' = <<>>
  /\ mcp_invoked' = <<>>
  /\ mcp_escaped' = FALSE
  /\ UNCHANGED <<mcp_world, manager_vars, not_mcp>>

\* handle_call_tool(name, arguments): dispatch on the name, then json.dumps of
\* the result; serialisable says whether the metadata of the documents a search
\* returned can be dumped
McpCallTool ==
  \E name \in ToolNames : \E pdf_path \in Paths : \E a \in IngestArgs :
  \E found \in SearchOutcomes : \E done \in IngestOutcomes :
  \E serialisable \in BOOLEAN :
    LET out ==
          IF name = "rag_search" THEN search_documents("q", found)
          ELSE IF name = "rag_ingest_pdf"
          THEN ingest_pdf(pdf_path, a.chunk_size, a.chunk_overlap, done)
          ELSE IF name = "rag_get_stats" THEN get_system_stats
          ELSE Returns(UnknownToolEnvelope(
                         name, ListedTools(mcp_kind, rag_available)), <<>>)
        raised == name = "rag_search" /\ out.result.success /\ ~serialisable
        reply == ToolReply(name, IF name = "rag_ingest_pdf" THEN pdf_path ELSE "",
                           out.result, raised)
    IN  /\ mcp_op' = Call(name, "tool",
                          IF name = "rag_ingest_pdf" THEN pdf_path ELSE "")
        /\ mcp_result' = reply.text
        /\ mcp_escaped' = reply.escaped
        /\ mcp_invoked' = out.invoked
        /\ vector_store' = out.vector_store
        /\ is_initialized' = out.is_initialized
        /\ last_ingestion_info' = out.last_ingestion_info
        /\ UNCHANGED <<mcp_world, tools_listed, not_mcp>>

McpNext == McpSearch \/ McpIngest \/ McpStats \/ McpListTools \/ McpCallTool

McpSpec == McpInit /\ [][McpNext]_vars

\* C17: every result of search_documents, ingest_pdf, get_system_stats and
\* handle_call_tool is an envelope with a boolean success field that has an
\* error text exactly when success is false, and no exception leaves
\* handle_call_tool.
IsEnvelope(r) ==
  /\ "success" \in DOMAIN r
  /\ r.success \in BOOLEAN
  /\ ("error" \in DOMAIN r) <=> (r.success = FALSE)
  /\ "error" \in DOMAIN r => Len(r.error) >= 1

C17_EveryResultIsAnEnvelope ==
  /\ ~mcp_escaped
  /\ mcp_op.op \notin {"none", "list_tools"} =>
       Len(mcp_result) = 1 /\ IsEnvelope(mcp_result[1])

C17_Witness ==
  /\ mcp_op = Call("rag_search", "tool", "")
  /\ mcp_invoked = <<"search_vector_database">>
  /\ mcp_result = <<ToolFailedEnvelope("rag_search", "")>>
  /\ ~mcp_escaped

IngestCalls == {"ingest_pdf", "rag_ingest_pdf"}
SearchCalls == {"search_documents", "rag_search"}
StatsCalls == {"get_system_stats", "rag_get_stats"}

NamesPath(r, pdf_path) ==
  "error" \in DOMAIN r /\ \E i \in 1..Len(r.error) : r.error[i] = pdf_path

\* the last call was ingest_pdf with a path that does not exist
MissingPathIngest ==
  mcp_op.op \in IngestCalls /\ mcp_op.pdf_path \notin files

\* the flexible manager answers before it looks at the path
AnswersBeforePath ==
  mcp_kind = "flexible" /\ (~rag_available \/ MissingVars # {})

\* C18 as stated: ingest_pdf with a path that does not exist returns
\* success=false with an error naming the path, invokes neither the loader nor
\* the store, and leaves vector_store, is_initialized and last_ingestion_info
\* unchanged.
C18_MissingPathReported ==
  /\ [](MissingPathIngest =>
          /\ mcp_result[1].success = FALSE
          /\ NamesPath(mcp_result[1], mcp_op.pdf_path)
          /\ mcp_invoked = <<>>)
  /\ [][MissingPathIngest' => UNCHANGED manager_vars]_vars

\* C18: ingest_pdf with a path that does not exist returns success=false,
\* invokes neither the loader nor the store, and leaves vector_store,
\* is_initialized and last_ingestion_info unchanged; the error names the path,
\* unless the flexible manager has no RAG components or misses an environment
\* variable, when the error says that instead.
C18_MissingPathIngestsNothing ==
  /\ [](MissingPathIngest =>
          /\ mcp_result[1].success = FALSE
          /\ mcp_invoked = <<>>
          /\ IF AnswersBeforePath
             THEN mcp_result[1] \in {UnavailableEnvelope, MissingVarsEnvelope}
             ELSE mcp_result[1] = NotFoundEnvelope(mcp_op.pdf_path)
                  /\ NamesPath(mcp_result[1], mcp_op.pdf_path))
  /\ [][MissingPathIngest' => UNCHANGED manager_vars]_vars

C18_Witness ==
  /\ mcp_op = Call("ingest_pdf", "manager", "missing.pdf")
  /\ files = {"a.pdf"}
  /\ mcp_result = <<NotFoundEnvelope("missing.pdf")>>
  /\ is_initialized
  /\ last_ingestion_info # <<>>

\* C20: in the flexible server handle_list_tools always lists rag_get_stats and
\* lists rag_search and rag_ingest_pdf exactly when rag_available is true; when
\* rag_available is false, search_documents and ingest_pdf return success=false,
\* invoke no component and change no field of the manager, and get_system_stats
\* returns success=true.
C20_ToolsFollowAvailability ==
  /\ [](mcp_kind = "flexible" /\ mcp_op.op = "list_tools" =>
          /\ "rag_get_stats" \in tools_listed
          /\ "rag_search" \in tools_listed <=> rag_available
          /\ "rag_ingest_pdf" \in tools_listed <=> rag_available)
  /\ [](mcp_kind = "flexible" /\ ~rag_available =>
          /\ mcp_op.op \in SearchCalls \cup IngestCalls =>
               mcp_result[1].success = FALSE /\ mcp_invoked = <<>>
          /\ mcp_op.op \in StatsCalls => mcp_result[1].success = TRUE)
  /\ [][mcp_kind = "flexible" /\ ~rag_available
          /\ mcp_op'.op \in SearchCalls \cup IngestCalls
          => UNCHANGED manager_vars]_vars

C20_Witness ==
  /\ mcp_kind = "flexible" /\ ~rag_available
  /\ tools_listed = {"rag_get_stats"}
  /\ mcp_op = Call("ingest_pdf", "manager", "a.pdf")
  /\ files = {"a.pdf"}
  /\ env_set = EnvVars
  /\ mcp_result = <<UnavailableEnvelope>>

\* the last call was an ingest_pdf that returned success
IngestSucceeded ==
  mcp_op.op \in IngestCalls /\ Len(mcp_result) = 1 /\ mcp_result[1].success

\* what a successful ingest_pdf reported: path, chunk count and chunk settings
Reported(r) ==
  [pdf_path |-> r.pdf_path, chunks_created |-> r.chunks_created,
   chunk_size |-> r.chunk_size, chunk_overlap |-> r.chunk_overlap]

\* C30: on one manager is_initialized starts false, becomes true with a
\* successful ingest_pdf and never returns to false; last_ingestion_info holds
\* the path, chunk count, chunk_size and chunk_overlap of the latest successful
\* ingest_pdf; every other call (a failed ingest_pdf, a search, a stats call)
\* leaves vector_store, is_initialized and last_ingestion_info unchanged; and
\* get_system_stats reports last_ingestion exactly when an ingest has succeeded.
C30_ManagerStateFollowsIngests ==
  /\ [](mcp_op = NoCall => ~is_initialized /\ last_ingestion_info = <<>>)
  /\ [](is_initialized <=> last_ingestion_info # <<>>)
  /\ [][IngestSucceeded' =>
          /\ is_initialized'
          /\ vector_store' = "store"
          /\ mcp_result'[1].pdf_path = mcp_op'.pdf_path
          /\ last_ingestion_info' = <<Reported(mcp_result'[1])>>]_vars
  /\ [][~IngestSucceeded' => UNCHANGED manager_vars]_vars
  /\ [][is_initialized => is_initialized']_vars
  /\ [](mcp_op.op \in StatsCalls =>
          /\ mcp_result[1].success
          /\ "last_ingestion" \in DOMAIN mcp_result[1] <=> is_initialized
          /\ is_initialized =>
               mcp_result[1].last_ingestion = last_ingestion_info[1])

\* a stats call after an ingest with non-default chunk settings succeeded
C30_Witness ==
  /\ mcp_op = Call("get_system_stats", "manager", "")
  /\ is_initialized
  /\ "last_ingestion" \in DOMAIN mcp_result[1]
  /\ mcp_result[1].last_ingestion.pdf_path = "a.pdf"
  /\ mcp_result[1].last_ingestion.chunk_size = 500
  /\ mcp_result[1].last_ingestion.chunks_created = MaxSplits

-----------------------------------------------------------------------------
(* Properties of split_text_smart                                          *)

\* C1: for chunk_size > overlap >= 0 the call terminates: every loop iteration
\* either ends the loop or strictly increases the cursor start and continues
\* with start < len(text) (the last-chunk iteration ends the loop and leaves
\* start as it is), so len(text) - start is a variant of the loop, and the
\* loop runs at most len(text) iterations.
C1_TerminatesWithProgress ==
  /\ [][pc = "loop" =>
          \/ pc' = "done" /\ start' >= start
          \/ pc' = "loop" /\ start' > start /\ start' < Len(text)]_vars
  /\ [](Len(iter_spans) <= Len(text))
  /\ [](pc = "done" => start + chunk_size >= Len(text) \/ start >= Len(text))

\* a call that needed exactly len(text) iterations, on a text of three or
\* more characters
C1_Witness == pc = "done" /\ Len(text) >= 3 /\ Len(iter_spans) = Len(text)

\* position p of the text lies in the span [start, cut) of some iteration
Covered(p) ==
  \E k \in 1..Len(iter_spans) : iter_spans[k][1] <= p /\ p < iter_spans[k][2]

\* C2: when the call has returned, every character position of the text lies
\* in the span of at least one loop iteration.
C2_EveryPositionCovered ==
  pc = "done" => \A p \in 0..(Len(text) - 1) : Covered(p)

\* number of text positions two chunks have in common
Shared(a, b) == Max(0, Min(a.hi, b.hi) - Max(a.lo, b.lo))

\* C5: two consecutive emitted chunks share at most chunk_overlap text
\* positions, also when a dropped candidate lies between them.
C5_OverlapBound ==
  \A k \in 1..(Len(chunk_spans) - 1) :
     Shared(chunk_spans[k], chunk_spans[k + 1]) <= chunk_overlap

\* two consecutive emitted chunks that share text although the candidate of
\* an iteration between them was dropped
C5_Witness ==
  \E k \in 1..(Len(chunk_spans) - 1) :
     /\ chunk_spans[k + 1].iter > chunk_spans[k].iter + 1
     /\ Shared(chunk_spans[k], chunk_spans[k + 1]) > 0

\* C6: every returned chunk is non-empty, starts and ends with a
\* non-whitespace character, occurs in the text as a contiguous substring, and
\* is at least min_chunk_size long.
C6_ChunksWellFormed ==
  \A k \in 1..Len(chunks) :
     LET c == chunks[k]
     IN  /\ c # <<>>
         /\ ~IsSpace(c[1]) /\ ~IsSpace(c[Len(c)])
         /\ \E a \in 0..(Len(text) - Len(c)) : SubSeq(text, a + 1, a + Len(c)) = c
         /\ Len(c) >= min_chunk_size

\* a finished call with a positive minimum that dropped a candidate and
\* emitted a trimmed final remainder
C6_Witness ==
  /\ pc = "done"
  /\ min_chunk_size > 0
  /\ Len(iter_spans) > Len(chunks)
  /\ chunk_spans # <<>>
  /\ chunk_spans[Len(chunk_spans)].iter = Len(iter_spans)
  /\ iter_spans[Len(iter_spans)][2] = Len(text)
  /\ chunk_spans[Len(chunk_spans)].hi < Len(text)

\* C14: split_text_smart on 2000 identical letters with chunk_size 1000,
\* chunk_overlap 150 and min_chunk_size 200 returns exactly 2 chunks, the second
\* of at most 1150 characters.
C14_TwoChunksOfLetters ==
  pc = "done" /\ text = LettersText /\ chunk_size = LettersConfig.chunk_size =>
    /\ Len(chunks) = 2
    /\ Len(chunks[2]) <= 1150

\* the finished split of the 2000 letters: a hard cut at 1000, then a cut at the
\* last character, and the remainder of 151 characters dropped
C14_Witness ==
  /\ pc = "done"
  /\ text = LettersText
  /\ chunk_overlap = 150 /\ min_chunk_size = 200
  /\ Len(chunks) = 2
  /\ Len(chunks[1]) = 1000
  /\ Len(chunks[2]) = 1149
  /\ Len(iter_spans) = 3

\* C26: no chunk split_text_smart returns is longer than max_chunk_size,
\* whatever chunk_size, chunk_overlap, min_chunk_size and max_chunk_size are.
C26_NoChunkAboveMaximum ==
  \A i \in 1..Len(chunks) : Len(chunks[i]) <= max_chunk_size

\* C27: every chunk split_text_smart returns is at most chunk_size + 149 long:
\* the cut of an iteration is at most 149 past start + chunk_size, and the last
\* iteration, which takes the remainder, takes at most chunk_size characters.
C27_ChunkLengthBound ==
  /\ \A i \in 1..Len(chunks) :
        /\ Len(chunks[i]) <= chunk_size + SearchWindow - 1
        /\ Len(chunks[i]) = chunk_spans[i].hi - chunk_spans[i].lo
  /\ \A k \in 1..Len(iter_spans) :
        LET s == iter_spans[k][1]
            cut == iter_spans[k][2]
        IN  IF s + chunk_size >= Len(text)
            THEN cut = Len(text) /\ cut - s <= chunk_size
            ELSE cut <= s + chunk_size + SearchWindow - 1

\* a finished split with a chunk of exactly chunk_size + 149 characters, cut 149
\* past its target
C27_Witness ==
  /\ pc = "done"
  /\ \E i \in 1..Len(chunks) : Len(chunks[i]) = chunk_size + SearchWindow - 1
  /\ \E k \in 1..Len(iter_spans) :
        iter_spans[k][2] = iter_spans[k][1] + chunk_size + SearchWindow - 1

=============================================================================
